---- MODULE Spec2Model ----
(***************************************************************************)
(* Media-to-sidecar matching of the Google Photos Metadata Restorer        *)
(* (src/src/matcher.py, class MediaFileMatcher).                           *)
(*                                                                         *)
(* File names are TLA+ strings; one directory is modelled, so a path is    *)
(* identified with its file name.  Confidences are in hundredths           *)
(* (1.0 = 100, 0.95 = 95, ...).  The filesystem is case-sensitive.         *)
(***************************************************************************)
EXTENDS Integers, Sequences, FiniteSets, TLC

(***************************************************************************)
(* Bounds of the model.                                                    *)
(***************************************************************************)
MaxFiles == 3
MaxCalls == 2
MaxSubFiles == 2
MaxBatchCalls == 6
MaxArchives == 2
\* the number of paths one delete_json_files call is given
MaxPaths == 2
\* the number of delete_json_files calls on one cleaner
MaxCleanups == 2

(***************************************************************************)
(* Python string and pathlib primitives used by matcher.py.                *)
(***************************************************************************)
UpperChars == "ABCDEFGHIJKLMNOPQRSTUVWXYZÉ"
LowerChars == "abcdefghijklmnopqrstuvwxyzé"
Whitespace == {" "}
Digits == {"0", "1", "2", "3", "4", "5", "6", "7", "8", "9"}

\* Python's None for an Optional[Path]; "/" is never a file name.
None == "/"

\* The single directory of the model (media_path.parent).
Dir == "dir"

CharAt(s, i) == SubSeq(s, i, i)

MapChar(c, from, to) ==
    IF \E i \in 1..Len(from) : CharAt(from, i) = c
    THEN CharAt(to, CHOOSE i \in 1..Len(from) : CharAt(from, i) = c)
    ELSE c

RECURSIVE MapStr(_, _, _)
MapStr(s, from, to) ==
    IF s = "" THEN ""
    ELSE MapChar(CharAt(s, 1), from, to) \o MapStr(SubSeq(s, 2, Len(s)), from, to)

\* str.lower()
Lower(s) == MapStr(s, UpperChars, LowerChars)

\* str.upper()
Upper(s) == MapStr(s, LowerChars, UpperChars)

\* str.startswith(p)
StartsWith(s, p) == Len(s) >= Len(p) /\ SubSeq(s, 1, Len(p)) = p

\* str.endswith(p)
EndsWith(s, p) == Len(s) >= Len(p) /\ SubSeq(s, Len(s) - Len(p) + 1, Len(s)) = p

\* s[:n] for n >= 0 (a slice never fails: it stops at the end of s)
Take(s, n) == SubSeq(s, 1, IF n < Len(s) THEN n ELSE Len(s))

\* s[:-n] for n >= 1
DropLast(s, n) == SubSeq(s, 1, Len(s) - n)

\* str.rstrip()
RECURSIVE RStrip(_)
RStrip(s) ==
    IF s # "" /\ CharAt(s, Len(s)) \in Whitespace
    THEN RStrip(SubSeq(s, 1, Len(s) - 1))
    ELSE s

\* str.rfind('.') as a 1-based index, 0 when there is no dot
RFindDot(s) ==
    IF \E i \in 1..Len(s) : CharAt(s, i) = "."
    THEN CHOOSE i \in 1..Len(s) :
            /\ CharAt(s, i) = "."
            /\ \A j \in (i + 1)..Len(s) : CharAt(s, j) # "."
    ELSE 0

\* pathlib: a name has a suffix when its last dot is neither its first nor
\* its last character
HasSuffix(name) == 1 < RFindDot(name) /\ RFindDot(name) < Len(name)

\* Path.suffix
Suffix(name) ==
    IF HasSuffix(name) THEN SubSeq(name, RFindDot(name), Len(name)) ELSE ""

\* Path.stem
Stem(name) ==
    IF HasSuffix(name) THEN SubSeq(name, 1, RFindDot(name) - 1) ELSE name

(***************************************************************************)
(* Constants of MediaFileMatcher.                                          *)
(***************************************************************************)
\* EDITED_PATTERNS, each r'-token$' searched with re.IGNORECASE.  The
\* Japanese token (four caseless characters) is written with four caseless
\* stand-in characters, the module's character set being Latin-1.
EDITED_PATTERNS ==
    <<"-edited", "-bearbeitet", "-modifié", "-editado", "-modificato", "-#@~&">>

\* supplem_patterns of _try_truncated_match, in the order they are tried
supplem_patterns ==
    <<".supplemental-metadata", ".supplemental-met", ".supplemental",
      ".supplem", ".supple", ".suppl", ".supp", ".sup", ".su", ".s">>

\* suffixes of _try_supplementary_match
suffixes == <<"-EFFECTS", "-ANIMATION", "-COLLAGE", "-PANO", "-MOTION">>

\* len(truncated_name) < 5: "Too short to be meaningful"
MinTruncatedLen == 5

ExactConfidence == 100
TruncatedConfidence == 95
EditedConfidence == 90
NumberedConfidence == 85
SupplementaryConfidence == 75
NoneConfidence == 0

\* MatchResult(media_path, json_path, match_type, confidence)
MatchResult(media_path, json_path, match_type, confidence) ==
    [media_path |-> media_path, json_path |-> json_path,
     match_type |-> match_type, confidence |-> confidence]

(***************************************************************************)
(* The inputs: media file names handed to find_json_for_media and the      *)
(* file names a directory may hold.                                        *)
(***************************************************************************)
MediaInputs ==
    {"photo.jpg", "photo-edited.jpg", "photo-BEARBEITET.jpg",
     "photo-MODIFIÉ.jpg", "photo-Editado.jpg", "photo-modificato.jpg",
     "photo-#@~&.jpg", "photo(1).jpg", "photo-EFFECTS.jpg",
     "photo-Motion.jpg"}

FileNames ==
    {"photo.jpg", "photo.jpg.json", "photo.j.json", "photo.json", "phot.json",
     "PHOTO.JP.JSON", "photo   .json", "photo.jpg.s.json",
     "photo.jpg.supplemen.json", "photo.jpg.supplemental-metadata.json",
     "photo-edited.jpg.json", "photo(1).jpg.json", "photo.jpg(1).json"}

\* the names the environment creates and deletes while the matcher is used
ChangingNames == {"photo.jpg.json", "photo.j.json", "photo.json"}

(***************************************************************************)
(* The strategies.  `files' is the set of names that exist in the          *)
(* directory when the call runs (Path.exists); `json_files' is the list    *)
(* _get_json_files_in_directory returns for it (the cached listing).       *)
(* The string computations are tabulated over the names of the model, so   *)
(* that each is evaluated once.                                            *)
(***************************************************************************)
Min(S) == CHOOSE x \in S : \A y \in S : x <= y

\* matcher.py:266-270: strip the first supplem pattern the name ends with
StripSupplem(truncated_name) ==
    LET hits == {i \in 1..Len(supplem_patterns) :
                    EndsWith(Lower(truncated_name), supplem_patterns[i])}
    IN  IF hits = {} THEN truncated_name
        ELSE DropLast(truncated_name, Len(supplem_patterns[Min(hits)]))

\* matcher.py:262-270: the truncated media name of a sidecar name
TruncatedName(json_name) == StripSupplem(DropLast(json_name, 5))

\* matcher.py:278: the media filename starts with the truncated name
StartsWithBranch(truncated_name, media_filename) ==
    StartsWith(Lower(media_filename), Lower(truncated_name))

\* matcher.py:286: the elif branch, which compares the right-stripped name
RStripBranch(truncated_name, media_filename) ==
    RStrip(Lower(truncated_name))
        = Lower(Take(media_filename, Len(RStrip(truncated_name))))

\* GOOGLE_FILENAME_LIMIT, which the matcher defines and does not use
GOOGLE_FILENAME_LIMIT == 51

\* Variant of Accepted: the scan is applied only to media filenames longer
\* than GOOGLE_FILENAME_LIMIT.
Accepted_LongNamesOnly(json_name, media_filename) ==
    /\ Len(media_filename) > GOOGLE_FILENAME_LIMIT
    /\ EndsWith(Lower(json_name), ".json")
    /\ Len(TruncatedName(json_name)) >= MinTruncatedLen
    /\ \/ StartsWithBranch(TruncatedName(json_name), media_filename)
       \/ RStripBranch(TruncatedName(json_name), media_filename)

\* matcher.py:255-289: the loop body's decision for one json file
Accepted(json_name, media_filename) ==
    /\ EndsWith(Lower(json_name), ".json")
    /\ Len(TruncatedName(json_name)) >= MinTruncatedLen
    /\ \/ StartsWithBranch(TruncatedName(json_name), media_filename)
       \/ RStripBranch(TruncatedName(json_name), media_filename)

\* Variant of EditedOriginal: the patterns are searched without
\* re.IGNORECASE.
EditedOriginal_CaseSensitive(media_filename) ==
    LET stem == Stem(media_filename)
        ext  == Suffix(media_filename)
        hits == {i \in 1..Len(EDITED_PATTERNS) :
                    EndsWith(stem, EDITED_PATTERNS[i])}
    IN  IF hits = {} THEN None
        ELSE DropLast(stem, Len(EDITED_PATTERNS[Min(hits)])) \o ext

\* matcher.py:183-187: the name of the original of an edited file,
\* None when no pattern matches the stem
EditedOriginal(media_filename) ==
    LET stem == Stem(media_filename)
        ext  == Suffix(media_filename)
        hits == {i \in 1..Len(EDITED_PATTERNS) :
                    EndsWith(Lower(stem), EDITED_PATTERNS[i])}
    IN  IF hits = {} THEN None
        ELSE DropLast(stem, Len(EDITED_PATTERNS[Min(hits)])) \o ext

\* Variant of SupplementaryOriginal: the suffixes are compared with the
\* stem as written, without upper().
SupplementaryOriginal_CaseSensitive(media_filename) ==
    LET stem == Stem(media_filename)
        ext  == Suffix(media_filename)
        hits == {i \in 1..Len(suffixes) : EndsWith(stem, suffixes[i])}
    IN  IF hits = {} THEN None
        ELSE DropLast(stem, Len(suffixes[Min(hits)])) \o ext

\* matcher.py:302-305: the name of the original of a derived file,
\* None when no suffix matches the stem
SupplementaryOriginal(media_filename) ==
    LET stem == Stem(media_filename)
        ext  == Suffix(media_filename)
        hits == {i \in 1..Len(suffixes) : EndsWith(Upper(stem), suffixes[i])}
    IN  IF hits = {} THEN None
        ELSE DropLast(stem, Len(suffixes[Min(hits)])) \o ext

\* NUMBERED_PATTERN = ^(.+?)(\(\d+\))(\.[^.]+)$ : the extension starts at
\* the last dot, the number group ends right before it, the base is the rest
NumberOpen(filename) ==
    LET d == RFindDot(filename)
        opens == {o \in 1..(d - 3) :
                    /\ CharAt(filename, o) = "("
                    /\ \A j \in (o + 1)..(d - 2) : CharAt(filename, j) \in Digits}
    IN  IF opens = {} THEN 0 ELSE Min(opens)

NUMBERED_PATTERN(filename) ==
    LET d == RFindDot(filename)
        o == NumberOpen(filename)
    IN  IF /\ d >= 5
           /\ d < Len(filename)
           /\ CharAt(filename, d - 1) = ")"
           /\ o >= 2
        THEN [matched |-> TRUE,
              base_name |-> SubSeq(filename, 1, o - 1),
              number |-> SubSeq(filename, o, d - 1),
              ext |-> SubSeq(filename, d, Len(filename))]
        ELSE [matched |-> FALSE, base_name |-> "", number |-> "", ext |-> ""]

\* matcher.py:204-221: the three placements tried for a numbered file
NumberedPlacements(media_filename) ==
    LET match == NUMBERED_PATTERN(media_filename)
    IN  [matched |-> match.matched,
         numbered_json |->
             match.base_name \o match.number \o match.ext \o ".json",
         alt_json |-> match.base_name \o match.ext \o match.number \o ".json",
         base_json |-> match.base_name \o match.ext \o ".json"]

\* the tables
EditedOriginalOf == [m \in MediaInputs |-> EditedOriginal(m)]
SupplementaryOriginalOf == [m \in MediaInputs |-> SupplementaryOriginal(m)]
NumberedPlacementsOf == [m \in MediaInputs |-> NumberedPlacements(m)]

\* the names _try_truncated_match is called with
QueryNames ==
    MediaInputs \cup {EditedOriginalOf[m] : m \in MediaInputs}
                \cup {SupplementaryOriginalOf[m] : m \in MediaInputs}

JsonNames == {f \in FileNames : Lower(Suffix(f)) = ".json"}
TruncatedLenOf == [j \in JsonNames |-> Len(TruncatedName(j))]
AcceptedFor == [m \in QueryNames |-> {j \in JsonNames : Accepted(j, m)}]

\* matcher.py:252-291: the loop, from index i with the best match so far
RECURSIVE TruncatedScan(_, _, _, _, _)
TruncatedScan(json_files, i, media_filename, best_match, best_match_len) ==
    IF i > Len(json_files) THEN best_match
    ELSE IF /\ json_files[i] \in AcceptedFor[media_filename]
            /\ TruncatedLenOf[json_files[i]] > best_match_len
         THEN TruncatedScan(json_files, i + 1, media_filename,
                            json_files[i], TruncatedLenOf[json_files[i]])
         ELSE TruncatedScan(json_files, i + 1, media_filename,
                            best_match, best_match_len)

\* Variant of _try_truncated_match: among candidates of the same length the
\* one that comes last in the listing is kept.
_try_truncated_match_LastWins(json_files, media_filename) ==
    IF json_files = <<>> THEN None
    ELSE TruncatedScan([i \in 1..Len(json_files) |->
                            json_files[Len(json_files) + 1 - i]],
                       1, media_filename, None, 0)

_try_truncated_match(json_files, media_filename) ==
    IF json_files = <<>> THEN None
    ELSE TruncatedScan(json_files, 1, media_filename, None, 0)

_try_edited_match(files, json_files, media_filename) ==
    LET original == EditedOriginalOf[media_filename]
        original_json == original \o ".json"
    IN  IF original = None THEN None
        ELSE IF original_json \in files THEN original_json
        ELSE _try_truncated_match(json_files, original)

\* Variant of _try_numbered_match: the fall-back to the sidecar of the
\* original without number is missing.
_try_numbered_match_NoBaseFallback(files, json_files, media_filename) ==
    LET match == NumberedPlacementsOf[media_filename]
    IN  IF ~match.matched THEN None
        ELSE IF match.numbered_json \in files THEN match.numbered_json
        ELSE IF match.alt_json \in files THEN match.alt_json
        ELSE _try_truncated_match(json_files, media_filename)

\* Variant of _try_numbered_match: the sidecar of the original is tried
\* before base.ext(N).json.
_try_numbered_match_BaseFirst(files, json_files, media_filename) ==
    LET match == NumberedPlacementsOf[media_filename]
    IN  IF ~match.matched THEN None
        ELSE IF match.numbered_json \in files THEN match.numbered_json
        ELSE IF match.base_json \in files THEN match.base_json
        ELSE IF match.alt_json \in files THEN match.alt_json
        ELSE _try_truncated_match(json_files, media_filename)

_try_numbered_match(files, json_files, media_filename) ==
    LET match == NumberedPlacementsOf[media_filename]
    IN  IF ~match.matched THEN None
        ELSE IF match.numbered_json \in files THEN match.numbered_json
        ELSE IF match.alt_json \in files THEN match.alt_json
        ELSE IF match.base_json \in files THEN match.base_json
        ELSE _try_truncated_match(json_files, media_filename)

_try_supplementary_match(files, json_files, media_filename) ==
    LET original == SupplementaryOriginalOf[media_filename]
        original_json == original \o ".json"
    IN  IF original = None THEN None
        ELSE IF original_json \in files THEN original_json
        ELSE _try_truncated_match(json_files, original)

\* Variants of find_json_for_media with one plausible slip each.
\* The truncated scan is consulted before the exact check.
find_json_for_media_TruncatedFirst(files, json_files, media_filename) ==
    LET exact_json == media_filename \o ".json"
        truncated == _try_truncated_match(json_files, media_filename)
    IN  IF truncated # None
        THEN MatchResult(media_filename, truncated, "truncated",
                         TruncatedConfidence)
        ELSE IF exact_json \in files
        THEN MatchResult(media_filename, exact_json, "exact", ExactConfidence)
        ELSE MatchResult(media_filename, None, "none", NoneConfidence)

\* The edited strategy is consulted before the truncated scan.
find_json_for_media_EditedFirst(files, json_files, media_filename) ==
    LET exact_json == media_filename \o ".json"
        truncated == _try_truncated_match(json_files, media_filename)
        edited == _try_edited_match(files, json_files, media_filename)
        numbered == _try_numbered_match(files, json_files, media_filename)
        supplementary ==
            _try_supplementary_match(files, json_files, media_filename)
    IN  IF exact_json \in files
        THEN MatchResult(media_filename, exact_json, "exact", ExactConfidence)
        ELSE IF edited # None
        THEN MatchResult(media_filename, edited, "edited", EditedConfidence)
        ELSE IF truncated # None
        THEN MatchResult(media_filename, truncated, "truncated",
                         TruncatedConfidence)
        ELSE IF numbered # None
        THEN MatchResult(media_filename, numbered, "numbered",
                         NumberedConfidence)
        ELSE IF supplementary # None
        THEN MatchResult(media_filename, supplementary, "supplementary",
                         SupplementaryConfidence)
        ELSE MatchResult(media_filename, None, "none", NoneConfidence)

\* The last strategy's result is returned without the `if json_path' test.
find_json_for_media_UnguardedLast(files, json_files, media_filename) ==
    LET exact_json == media_filename \o ".json"
        truncated == _try_truncated_match(json_files, media_filename)
        edited == _try_edited_match(files, json_files, media_filename)
        numbered == _try_numbered_match(files, json_files, media_filename)
        supplementary ==
            _try_supplementary_match(files, json_files, media_filename)
    IN  IF exact_json \in files
        THEN MatchResult(media_filename, exact_json, "exact", ExactConfidence)
        ELSE IF truncated # None
        THEN MatchResult(media_filename, truncated, "truncated",
                         TruncatedConfidence)
        ELSE IF edited # None
        THEN MatchResult(media_filename, edited, "edited", EditedConfidence)
        ELSE IF numbered # None
        THEN MatchResult(media_filename, numbered, "numbered",
                         NumberedConfidence)
        ELSE MatchResult(media_filename, supplementary, "supplementary",
                         SupplementaryConfidence)

\* The numbered result carries the edited strategy's confidence.
find_json_for_media_CopiedConfidence(files, json_files, media_filename) ==
    LET exact_json == media_filename \o ".json"
        truncated == _try_truncated_match(json_files, media_filename)
        edited == _try_edited_match(files, json_files, media_filename)
        numbered == _try_numbered_match(files, json_files, media_filename)
        supplementary ==
            _try_supplementary_match(files, json_files, media_filename)
    IN  IF exact_json \in files
        THEN MatchResult(media_filename, exact_json, "exact", ExactConfidence)
        ELSE IF truncated # None
        THEN MatchResult(media_filename, truncated, "truncated",
                         TruncatedConfidence)
        ELSE IF edited # None
        THEN MatchResult(media_filename, edited, "edited", EditedConfidence)
        ELSE IF numbered # None
        THEN MatchResult(media_filename, numbered, "numbered",
                         EditedConfidence)
        ELSE IF supplementary # None
        THEN MatchResult(media_filename, supplementary, "supplementary",
                         SupplementaryConfidence)
        ELSE MatchResult(media_filename, None, "none", NoneConfidence)

\* find_json_for_media as a function of what exists, what the listing
\* returns and the media file name
find_json_for_media(files, json_files, media_filename) ==
    LET exact_json == media_filename \o ".json"
        truncated == _try_truncated_match(json_files, media_filename)
        edited == _try_edited_match(files, json_files, media_filename)
        numbered == _try_numbered_match(files, json_files, media_filename)
        supplementary ==
            _try_supplementary_match(files, json_files, media_filename)
    IN  IF exact_json \in files
        THEN MatchResult(media_filename, exact_json, "exact", ExactConfidence)
        ELSE IF truncated # None
        THEN MatchResult(media_filename, truncated, "truncated",
                         TruncatedConfidence)
        ELSE IF edited # None
        THEN MatchResult(media_filename, edited, "edited", EditedConfidence)
        ELSE IF numbered # None
        THEN MatchResult(media_filename, numbered, "numbered",
                         NumberedConfidence)
        ELSE IF supplementary # None
        THEN MatchResult(media_filename, supplementary, "supplementary",
                         SupplementaryConfidence)
        ELSE MatchResult(media_filename, None, "none", NoneConfidence)

\* the sets of at most n of the names
RECURSIVE FileSets(_, _)
FileSets(names, n) ==
    IF n = 0 THEN {{}}
    ELSE LET smaller == FileSets(names, n - 1)
         IN  smaller \cup {S \cup {f} : S \in smaller, f \in names}

\* the orders in which a directory listing can produce a set of files
RECURSIVE Orders(_)
Orders(S) ==
    IF S = {} THEN {<<>>}
    ELSE UNION {{<<f>> \o rest : rest \in Orders(S \ {f})} : f \in S}

(***************************************************************************)
(* The directory tree of a batch run: the root directory and one           *)
(* subdirectory of it.  A file of the root is named by its name, a file of *)
(* the subdirectory by "sub/" and its name.                                *)
(***************************************************************************)
Sub == "dir/sub"

PathIn(directory, name) == IF directory = Dir THEN name ELSE "sub/" \o name

IMAGE_EXTENSIONS ==
    {".jpg", ".jpeg", ".png", ".gif", ".bmp", ".tiff", ".tif", ".webp",
     ".heic", ".heif", ".raw", ".cr2", ".nef", ".arw", ".dng", ".orf",
     ".rw2", ".pef", ".srw"}

VIDEO_EXTENSIONS ==
    {".mp4", ".mov", ".avi", ".mkv", ".wmv", ".flv", ".webm", ".m4v",
     ".3gp", ".3g2", ".mts", ".m2ts", ".mpg", ".mpeg"}

MEDIA_EXTENSIONS == IMAGE_EXTENSIONS \cup VIDEO_EXTENSIONS

\* is_media_file(path)
is_media_file(name) == Lower(Suffix(name)) \in MEDIA_EXTENSIONS

\* part in s
Contains(s, part) ==
    \E i \in 1..(Len(s) - Len(part) + 1) :
        SubSeq(s, i, i + Len(part) - 1) = part

\* is_json_metadata_file(path): ext[:i] for i in 1..len(ext)-1 and the whole
\* ext are the first k = 2..Len(ext) characters of the dotted extension
is_json_metadata_file(name) ==
    /\ Lower(Suffix(name)) = ".json"
    /\ LET base == DropLast(name, 5)
       IN  \/ \E ext \in MEDIA_EXTENSIONS :
                \E k \in 2..Len(ext) : EndsWith(Lower(base), Take(ext, k))
           \/ Contains(Lower(base), ".supplemental")
           \/ Contains(Lower(base), ".supplem")

\* Path.glob("*.json") and Path.rglob("*.json"): the pattern is compared
\* with the name as written (POSIX flavour)
GlobsAsJson(name) == EndsWith(name, ".json")

\* matcher.py:374-386: the name without '.json' and without the first of
\* the supplem patterns it ends with
OrphanBase(json_name) ==
    LET base == DropLast(json_name, 5)
        hits == {i \in 1..Len(supplem_patterns) :
                    EndsWith(Lower(base), supplem_patterns[i])}
    IN  IF hits = {} THEN base
        ELSE DropLast(base, Len(supplem_patterns[Min(hits)]))

\* matcher.py:394: the comparison of a media file name with a sidecar's base
MediaStartsWithBase(media_name, base) ==
    StartsWith(Lower(media_name), RStrip(Lower(base)))

\* the names a tree is built from: two media files that share a sidecar,
\* sidecars with a full, a truncated and an upper-case name, one with a
\* truncated supplemental marker, a .json file that names no media file
\* and a file that is neither media nor .json
TreeNames ==
    {"photo.jpg", "photo-edited.jpg", "photo.jpg.json", "photo.j.json",
     "photo.jpg.supplemen.json", "PHOTO.JP.JSON", "photo.json", "notes.txt"}

SubNames == {"photo.jpg", "photo.jpg.json", "photo.j.json"}

\* the order in which the filesystem enumerates entries; a directory is
\* enumerated in this order or in the opposite one
TreeOrder ==
    <<"photo.jpg.supplemen.json", "photo.jpg", "photo.j.json", "notes.txt",
      "photo-edited.jpg", "photo.jpg.json", "photo.json", "PHOTO.JP.JSON">>

Reverse(seq) == [i \in 1..Len(seq) |-> seq[Len(seq) + 1 - i]]

ScanOrders == {TreeOrder, Reverse(TreeOrder)}

IsMediaOf == [n \in TreeNames |-> is_media_file(n)]
IsJsonMetadataOf == [n \in TreeNames |-> is_json_metadata_file(n)]
GlobsAsJsonOf == [n \in TreeNames |-> GlobsAsJson(n)]
OrphanBaseOf ==
    [n \in {f \in TreeNames : Lower(Suffix(f)) = ".json"} |-> OrphanBase(n)]
HasMediaFor ==
    [n \in DOMAIN OrphanBaseOf |->
        {m \in TreeNames : IsMediaOf[m]
                           /\ MediaStartsWithBase(m, OrphanBaseOf[n])}]

\* the files directory.iterdir() yields that pass the filter
\* f.is_file() and f.suffix.lower() == '.json'
JsonFilesOf(files) == files \cap JsonNames

\* the elements of a sequence at the indices of a set, in their order
RECURSIVE Keep(_, _, _)
Keep(seq, i, indices) ==
    IF i > Len(seq) THEN <<>>
    ELSE (IF i \in indices THEN <<seq[i]>> ELSE <<>>)
         \o Keep(seq, i + 1, indices)

\* directory.iterdir(): the entries of a directory in enumeration order
Scan(order, files) == Keep(order, 1, {i \in DOMAIN order : order[i] \in files})

\* the tree as a function from its directories to their files
Tree(root_files, sub_files) == (Dir :> root_files) @@ (Sub :> sub_files)

\* Variant of Walk: the subdirectory is entered also when recursive is
\* False.
Walk_AlwaysRecursive(tree, order, recursive) ==
    [i \in 1..Len(Scan(order, tree[Dir])) |-> <<Dir, Scan(order, tree[Dir])[i]>>]
    \o [i \in 1..Len(Scan(order, tree[Sub])) |->
           <<Sub, Scan(order, tree[Sub])[i]>>]

\* directory.rglob(pattern) and directory.iterdir()/glob(pattern): the
\* entries of the root, then (recursive) those of the subdirectory, as
\* pairs <<directory, name>>
Walk(tree, order, recursive) ==
    [i \in 1..Len(Scan(order, tree[Dir])) |-> <<Dir, Scan(order, tree[Dir])[i]>>]
    \o (IF recursive
        THEN [i \in 1..Len(Scan(order, tree[Sub])) |->
                  <<Sub, Scan(order, tree[Sub])[i]>>]
        ELSE <<>>)

\* matcher.py:328-336: media_files
MediaFilesOf(tree, order, recursive) ==
    LET entries == Walk(tree, order, recursive)
    IN  Keep(entries, 1, {i \in DOMAIN entries : IsMediaOf[entries[i][2]]})

\* a MatchResult of a file of a directory, with the paths in the tree
Located(directory, r) ==
    MatchResult(PathIn(directory, r.media_path),
                IF r.json_path = None THEN None
                ELSE PathIn(directory, r.json_path),
                r.match_type, r.confidence)

\* matcher.py:342-343: one round of the loop, for the media file
\* <<directory, name>>, from the cache and the results so far
MatchStep(tree, order, entry, run) ==
    LET directory == entry[1]
        json_files ==
            IF directory \in DOMAIN run.cache THEN run.cache[directory]
            ELSE Scan(order, JsonFilesOf(tree[directory]))
    IN  CHOOSE after \in
            {[results |-> Append(run.results, Located(directory, r)),
              cache |-> IF r.match_type = "exact" THEN run.cache
                        ELSE (directory :> json_files) @@ run.cache] :
                r \in {find_json_for_media(tree[directory], json_files,
                                           entry[2])}} : TRUE

\* matcher.py:341-343: the loop over media_files from index i; each round
\* works on the values the round before it produced
RECURSIVE MatchLoop(_, _, _, _, _)
MatchLoop(tree, order, media_files, i, run) ==
    IF i > Len(media_files) THEN run
    ELSE CHOOSE end \in
            {MatchLoop(tree, order, media_files, i + 1, next) :
                next \in {MatchStep(tree, order, media_files[i], run)}} : TRUE

\* a matcher's cache and the results of a run that has not matched a file
RunFrom(cache) == [results |-> <<>>, cache |-> cache]

\* matcher.py:345: the number of results with a sidecar
MatchedIn(results) ==
    Cardinality({i \in DOMAIN results : results[i].json_path # None})

\* matcher.py:359-405: the sidecars reported for a tree
find_orphaned_json_files(tree, order, recursive) ==
    LET entries == Walk(tree, order, recursive)
        json_files ==
            Keep(entries, 1,
                 {i \in DOMAIN entries : GlobsAsJsonOf[entries[i][2]]})
        reported ==
            Keep(json_files, 1,
                 {i \in DOMAIN json_files :
                     /\ IsJsonMetadataOf[json_files[i][2]]
                     /\ HasMediaFor[json_files[i][2]]
                            \cap tree[json_files[i][1]] = {}})
    IN  [i \in 1..Len(reported) |-> PathIn(reported[i][1], reported[i][2])]

(***************************************************************************)
(* ZipExtractor (extractor.py) and the steps of MetadataRestorer.run       *)
(* (main.py).  The archives lie in input_path; fs and sub are the files    *)
(* of the path the run works on, other than archives.                      *)
(***************************************************************************)

\* the files input_path may hold
InputNames == {"takeout-001.zip", "takeout-002.ZIP", "broken.zip", "notes.txt"}

\* sorted(): the order of the paths of input_path
InputOrder == <<"broken.zip", "notes.txt", "takeout-001.zip", "takeout-002.ZIP">>

\* the archives zipfile.ZipFile rejects with BadZipFile
BadZipFiles == {"broken.zip"}

\* zf.namelist() of the archives that can be read
namelist(zip_name) ==
    CASE zip_name = "takeout-001.zip" ->
             <<"photo.jpg", "photo.jpg.json", "__MACOSX/._photo.jpg">>
      [] zip_name = "takeout-002.ZIP" ->
             <<"photo-edited.jpg", "sub/photo.jpg", "sub/photo.jpg.json",
               "._notes.txt">>
      [] OTHER -> <<>>

\* extractor.py:44-53: the archives of a directory, sorted
find_zip_files(files) ==
    Keep(InputOrder, 1,
         {i \in DOMAIN InputOrder :
              /\ InputOrder[i] \in files
              /\ Lower(Suffix(InputOrder[i])) = ".zip"})

\* extractor.py:109-111: the members that are not extracted
SkippedMember(member) ==
    Contains(member, "__MACOSX") \/ StartsWith(member, "._")

\* extractor.py:107-115: the members zf.extract writes under output_dir
ExtractedMembers(zip_name) ==
    {namelist(zip_name)[i] : i \in
        {k \in DOMAIN namelist(zip_name) : ~SkippedMember(namelist(zip_name)[k])}}

\* the files one archive adds to each directory of output_dir
ExtractedOf ==
    [z \in InputNames |->
        [d \in {Dir, Sub} |->
            {n \in TreeNames : PathIn(d, n) \in ExtractedMembers(z)}]]

\* extractor.py:96-145: whether extract_zip returns True
ExtractsOf == [z \in InputNames |-> z \notin BadZipFiles]

\* extractor.py:198-247: extract_all on the files of input_path, into the
\* tree of output_dir; unlink() of an archive fails when input_path cannot
\* be written
extract_all(files, writable, tree, delete_after_extraction) ==
    LET zip_files == find_zip_files(files)
        extracted == Keep(zip_files, 1,
                          {i \in DOMAIN zip_files : ExtractsOf[zip_files[i]]})
        names == {extracted[i] : i \in DOMAIN extracted}
    IN  [total |-> Len(zip_files),
         successful |-> Len(extracted),
         extracted_files |-> extracted,
         files |-> IF delete_after_extraction /\ writable
                   THEN files \ names ELSE files,
         tree |-> [d \in {Dir, Sub} |->
                      tree[d] \cup UNION {ExtractedOf[z][d] : z \in names}]]

\* main.py:205-235: what the loop of _inject_metadata does with one match
Outcomes(dry_run) ==
    IF dry_run THEN {"unparsed", "nothing_useful", "injected"}
    ELSE {"unparsed", "nothing_useful", "injected", "failed", "raised"}

\* main.py:199: matched_items
MatchedItems(results) ==
    Keep(results, 1, {i \in DOMAIN results : results[i].json_path # None})

\* main.py:208-237: the outcomes the i-th round of the loop may have, after
\* the rounds in done: the parser reads a sidecar it has read in an earlier
\* round the same way again
OutcomesFor(dry_run, matched_items, done, i) ==
    LET earlier ==
            {done[k] : k \in {n \in DOMAIN done :
                matched_items[n].json_path = matched_items[i].json_path}}
    IN  IF earlier = {} THEN Outcomes(dry_run)
        ELSE IF "unparsed" \in earlier THEN {"unparsed"}
        ELSE IF "nothing_useful" \in earlier THEN {"nothing_useful"}
        ELSE Outcomes(dry_run) \ {"unparsed", "nothing_useful"}

\* main.py:217, 233: the outcomes after which the sidecar is appended to
\* processed_json_files
AppendedAfter == {"nothing_useful", "injected", "failed"}

\* whether a path of the tree exists
ExistsIn(tree, path) ==
    \E d \in {Dir, Sub} : \E n \in tree[d] : PathIn(d, n) = path

\* the tree without a path
Unlinked(tree, path) ==
    [d \in {Dir, Sub} |-> {n \in tree[d] : PathIn(d, n) # path}]

\* cleaner.py:49-51: the lists of a JsonCleaner and the tree it works on
Cleaned(tree, deleted_files, failed_files, skipped_files) ==
    [tree |-> tree, deleted_files |-> deleted_files,
     failed_files |-> failed_files, skipped_files |-> skipped_files]

\* utils.py:151-174: safe_delete of a path that exists; a dry run deletes
\* nothing and reports success, unlink fails in a directory that is not
\* writable
safe_delete(dry_run, writable) == dry_run \/ writable

\* cleaner.py:53-94: delete_json_file of a cleaner built without backups,
\* from the tree and the lists so far; a path that does not exist is put on
\* no list, a dry run leaves the file where it is
delete_json_file(cleaned, json_path, dry_run, writable) ==
    IF ~ExistsIn(cleaned.tree, json_path) THEN cleaned
    ELSE IF Lower(Suffix(json_path)) # ".json"
    THEN [cleaned EXCEPT !.skipped_files = Append(@, json_path)]
    ELSE IF safe_delete(dry_run, writable)
    THEN [cleaned EXCEPT
            !.tree = IF dry_run THEN @ ELSE Unlinked(@, json_path),
            !.deleted_files = Append(@, json_path)]
    ELSE [cleaned EXCEPT
            !.failed_files = Append(@, <<json_path, "Delete failed">>)]

\* cleaner.py:108-109: the loop of delete_json_files
RECURSIVE delete_json_files(_, _, _, _, _)
delete_json_files(cleaned, json_paths, i, dry_run, writable) ==
    IF i > Len(json_paths) THEN cleaned
    ELSE delete_json_files(
            delete_json_file(cleaned, json_paths[i], dry_run, writable),
            json_paths, i + 1, dry_run, writable)

\* cleaner.py:17-25, 111-118: the CleanupResult delete_json_files builds from
\* the paths it was given and the lists of the cleaner
CleanupResult(json_paths, cleaned) ==
    [total_files |-> Len(json_paths),
     deleted_count |-> Len(cleaned.deleted_files),
     failed_count |-> Len(cleaned.failed_files),
     skipped_count |-> Len(cleaned.skipped_files),
     deleted_files |-> cleaned.deleted_files,
     failed_files |-> cleaned.failed_files]

\* cleaner.py:30-51: JsonCleaner.__init__ without backups
JsonCleaner(dry_run) ==
    [dry_run |-> dry_run, deleted_files |-> <<>>, failed_files |-> <<>>,
     skipped_files |-> <<>>]

(***************************************************************************)
(* State.                                                                  *)
(***************************************************************************)
VARIABLES
    fs,               \* names of the files that exist in the directory
    dir_readable,     \* whether directory.iterdir() succeeds
    _json_cache,      \* self._json_cache: directory -> list of json names
    matched_count,    \* self.matched_count
    unmatched_count,  \* self.unmatched_count
    result,           \* the MatchResult the last call returned
    sub,              \* names of the files that exist in the subdirectory
    root_exists,      \* whether the root directory exists
    scan_order,       \* the order in which directories are enumerated
    call,             \* the last batch call: operation, argument, exception
    returned,         \* the sequence the last batch call returned
    input_files,      \* names of the files that exist in input_path
    input_writable,   \* whether a file of input_path can be unlinked
    options,          \* the arguments the MetadataRestorer was built with
    pc,               \* the step of run() that was taken last
    stats,            \* self.stats
    matches,          \* run(): matches
    processed_json_files,  \* run(): processed_json_files
    extracted_files,  \* extractor.extracted_files
    outcomes,         \* what _inject_metadata did with each matched item
    cleaner,          \* a JsonCleaner: dry_run and its three lists
    cleanup_results   \* the CleanupResults the cleaner has returned

matcher_vars ==
    <<fs, dir_readable, _json_cache, matched_count, unmatched_count, result>>

batch_vars == <<sub, root_exists, scan_order, call, returned>>

run_vars ==
    <<input_files, input_writable, options, pc, stats, matches,
      processed_json_files, extracted_files, outcomes>>

cleaner_vars == <<cleaner, cleanup_results>>

vars == <<matcher_vars, batch_vars, run_vars, cleaner_vars>>

\* no call has returned yet
NoResult == MatchResult(None, None, "", NoneConfidence)

\* MediaFileMatcher.__init__
NewMatcher ==
    /\ matched_count = 0
    /\ unmatched_count = 0
    /\ _json_cache = <<>>
    /\ result = NoResult

\* no batch call has been made
NoCall == [op |-> "", recursive |-> FALSE, raised |-> ""]

\* a root directory without subdirectory, and no batch call
NoBatch ==
    /\ sub = {}
    /\ root_exists = TRUE
    /\ scan_order = TreeOrder
    /\ call = NoCall
    /\ returned = <<>>

\* main.py:73-82: self.stats of a new MetadataRestorer
NewStats ==
    [zips_extracted |-> 0, media_files_found |-> 0, media_files_matched |-> 0,
     metadata_injected |-> 0, injection_failed |-> 0, json_files_deleted |-> 0]

\* main.py:40-47: the defaults of the arguments of MetadataRestorer
DefaultOptions ==
    [extract_zips |-> FALSE, delete_zips |-> FALSE, delete_json |-> TRUE,
     dry_run |-> FALSE]

\* no MetadataRestorer runs
NoRun ==
    /\ input_files = {}
    /\ input_writable = TRUE
    /\ options = DefaultOptions
    /\ pc = ""
    /\ stats = NewStats
    /\ matches = <<>>
    /\ processed_json_files = <<>>
    /\ extracted_files = <<>>
    /\ outcomes = <<>>

\* no JsonCleaner is used
NoCleaner ==
    /\ cleaner = JsonCleaner(FALSE)
    /\ cleanup_results = <<>>

\* a readable directory that does not change while the matcher is used
InitStatic ==
    /\ fs \in FileSets(FileNames, MaxFiles)
    /\ dir_readable = TRUE
    /\ NewMatcher
    /\ NoBatch
    /\ NoRun
    /\ NoCleaner

\* a tree that does not change while it is matched: a root directory that
\* exists or not, with its files and those of its subdirectory
InitTree ==
    /\ root_exists \in BOOLEAN
    /\ fs \in (IF root_exists THEN FileSets(TreeNames, MaxFiles) ELSE {{}})
    /\ sub \in (IF root_exists THEN FileSets(SubNames, MaxSubFiles) ELSE {{}})
    /\ scan_order \in ScanOrders
    /\ dir_readable = TRUE
    /\ NewMatcher
    /\ call = NoCall
    /\ returned = <<>>
    /\ NoRun
    /\ NoCleaner

\* the files the path run() works on may hold before the run
StartNames == {"photo.jpg", "photo.jpg.json"}

\* a MetadataRestorer built with any of its switches, before run(): the
\* archives of input_path and the tree of the path it works on
InitRun ==
    /\ options \in [extract_zips : BOOLEAN, delete_zips : BOOLEAN,
                    delete_json : BOOLEAN, dry_run : BOOLEAN]
    /\ input_files \in FileSets(InputNames, MaxArchives)
    /\ input_writable \in BOOLEAN
    /\ fs \in SUBSET StartNames
    /\ sub = {}
    /\ root_exists = TRUE
    /\ scan_order \in ScanOrders
    /\ dir_readable = TRUE
    /\ NewMatcher
    /\ call = NoCall
    /\ returned = <<>>
    /\ pc = "constructed"
    /\ stats = NewStats
    /\ matches = <<>>
    /\ processed_json_files = <<>>
    /\ extracted_files = <<>>
    /\ outcomes = <<>>
    /\ NoCleaner

\* the files of the directory a cleaner works on
CleanerNames == {"photo.jpg", "photo.jpg.json", "PHOTO.JP.JSON", "notes.txt"}

\* a JsonCleaner, built for a dry run or not, and the directory it works on
InitCleaner ==
    /\ fs \in FileSets(CleanerNames, MaxFiles)
    /\ sub = {}
    /\ root_exists = TRUE
    /\ scan_order \in ScanOrders
    /\ dir_readable = TRUE
    /\ NewMatcher
    /\ call = NoCall
    /\ returned = <<>>
    /\ NoRun
    /\ cleaner \in {JsonCleaner(dry_run) : dry_run \in BOOLEAN}
    /\ cleanup_results = <<>>

\* a directory, readable or not, whose sidecars come and go while the
\* matcher is used
Init ==
    /\ fs \in FileSets(ChangingNames, 1)
    /\ dir_readable \in BOOLEAN
    /\ NewMatcher
    /\ NoBatch
    /\ NoRun
    /\ NoCleaner

\* Variant of _get_json_files_in_directory: the directory is listed on
\* every request, the cache is not consulted.
_get_json_files_in_directory_Uncached ==
    IF dir_readable THEN Orders(JsonFilesOf(fs)) ELSE {<<>>}

\* Variant of _get_json_files_in_directory: a directory that cannot be
\* listed is treated as if the listing had succeeded.
_get_json_files_in_directory_IgnoresFailure ==
    IF Dir \in DOMAIN _json_cache THEN {_json_cache[Dir]}
    ELSE Orders(JsonFilesOf(fs))

\* _get_json_files_in_directory: the lists it can return in this state
_get_json_files_in_directory ==
    IF Dir \in DOMAIN _json_cache THEN {_json_cache[Dir]}
    ELSE IF dir_readable THEN Orders(JsonFilesOf(fs))
    ELSE {<<>>}

\* Variant of FindJsonForMedia: a match resolved by the edited or the
\* numbered strategy leaves the cache as it was.
FindJsonForMedia_DirectChecksOnly(media_filename) ==
    /\ matched_count + unmatched_count < MaxCalls
    /\ \E json_files \in _get_json_files_in_directory :
         LET r == find_json_for_media(fs, json_files, media_filename)
         IN  /\ result' = r
             /\ _json_cache' =
                    IF r.match_type \in {"exact", "edited", "numbered"}
                    THEN _json_cache
                    ELSE (Dir :> json_files) @@ _json_cache
             /\ matched_count' =
                    IF r.json_path # None THEN matched_count + 1
                    ELSE matched_count
             /\ unmatched_count' =
                    IF r.json_path # None THEN unmatched_count
                    ELSE unmatched_count + 1
    /\ UNCHANGED <<fs, dir_readable, batch_vars, run_vars, cleaner_vars>>

\* find_json_for_media(media_path)
FindJsonForMedia(media_filename) ==
    /\ matched_count + unmatched_count < MaxCalls
    /\ \E json_files \in _get_json_files_in_directory :
         LET r == find_json_for_media(fs, json_files, media_filename)
         IN  /\ result' = r
             /\ _json_cache' = IF r.match_type = "exact" THEN _json_cache
                               ELSE (Dir :> json_files) @@ _json_cache
             /\ matched_count' =
                    IF r.json_path # None THEN matched_count + 1
                    ELSE matched_count
             /\ unmatched_count' =
                    IF r.json_path # None THEN unmatched_count
                    ELSE unmatched_count + 1
    /\ UNCHANGED <<fs, dir_readable, batch_vars, run_vars, cleaner_vars>>

\* Variant of ClearCache: the counters are reset with the cache.
ClearCache_ResetsCounters ==
    /\ _json_cache' = <<>>
    /\ matched_count' = 0
    /\ unmatched_count' = 0
    /\ UNCHANGED <<fs, dir_readable, result, batch_vars, run_vars, cleaner_vars>>

\* clear_cache()
ClearCache ==
    /\ _json_cache' = <<>>
    /\ UNCHANGED <<fs, dir_readable, matched_count, unmatched_count, result,
                   batch_vars, run_vars, cleaner_vars>>

\* the environment creates a file in the directory
CreateFile(name) ==
    /\ name \notin fs
    /\ Cardinality(fs) < MaxFiles
    /\ fs' = fs \cup {name}
    /\ UNCHANGED <<dir_readable, _json_cache, matched_count, unmatched_count,
                   result, batch_vars, run_vars, cleaner_vars>>

\* the environment deletes a file of the directory
DeleteFile(name) ==
    /\ name \in fs
    /\ fs' = fs \ {name}
    /\ UNCHANGED <<dir_readable, _json_cache, matched_count, unmatched_count,
                   result, batch_vars, run_vars, cleaner_vars>>

\* the call record of a batch operation
Call(op, recursive, raised) ==
    [op |-> op, recursive |-> recursive, raised |-> raised]

\* find_all_matches(directory, recursive) on this matcher; iterdir() of a
\* root that does not exist raises, rglob() of it yields nothing
FindAllMatches(recursive) ==
    LET tree == Tree(fs, sub)
        media_files == MediaFilesOf(tree, scan_order, recursive)
    IN  /\ matched_count + unmatched_count + Len(media_files) <= MaxBatchCalls
        /\ IF ~recursive /\ ~root_exists
           THEN /\ call' = Call("find_all_matches", recursive,
                                "FileNotFoundError")
                /\ UNCHANGED <<_json_cache, matched_count, unmatched_count,
                               returned>>
           ELSE \E run \in {MatchLoop(tree, scan_order, media_files, 1,
                                      RunFrom(_json_cache))} :
                /\ call' = Call("find_all_matches", recursive, "")
                /\ returned' = run.results
                /\ _json_cache' = run.cache
                /\ matched_count' = matched_count + MatchedIn(run.results)
                /\ unmatched_count' =
                       unmatched_count + Len(run.results)
                                       - MatchedIn(run.results)
        /\ UNCHANGED <<fs, dir_readable, result, sub, root_exists, scan_order,
                       run_vars, cleaner_vars>>

\* find_orphaned_json_files(directory, recursive); glob() and rglob() of a
\* root that does not exist yield nothing
FindOrphanedJsonFiles(recursive) ==
    /\ call' = Call("find_orphaned_json_files", recursive, "")
    /\ returned' = find_orphaned_json_files(Tree(fs, sub), scan_order, recursive)
    /\ UNCHANGED <<matcher_vars, sub, root_exists, scan_order, run_vars,
                   cleaner_vars>>

\* Variant of FindMediaJsonPairs: every run enumerates the directories in
\* an order of its own.
FindMediaJsonPairs_OwnOrder(recursive) ==
    \E order \in ScanOrders :
      LET tree == Tree(fs, sub)
          media_files == MediaFilesOf(tree, order, recursive)
      IN  /\ IF ~recursive /\ ~root_exists
             THEN /\ call' = Call("find_media_json_pairs", recursive,
                                  "FileNotFoundError")
                  /\ UNCHANGED returned
             ELSE \E run \in {MatchLoop(tree, order, media_files, 1,
                                        RunFrom(<<>>))} :
                  /\ call' = Call("find_media_json_pairs", recursive, "")
                  /\ returned' = [i \in 1..Len(run.results) |->
                                     <<run.results[i].media_path,
                                       run.results[i].json_path>>]
          /\ UNCHANGED <<matcher_vars, sub, root_exists, scan_order, run_vars,
                         cleaner_vars>>

\* find_media_json_pairs(directory, recursive): a new matcher for one run
FindMediaJsonPairs(recursive) ==
    LET tree == Tree(fs, sub)
        media_files == MediaFilesOf(tree, scan_order, recursive)
    IN  /\ IF ~recursive /\ ~root_exists
           THEN /\ call' = Call("find_media_json_pairs", recursive,
                                "FileNotFoundError")
                /\ UNCHANGED returned
           ELSE \E run \in {MatchLoop(tree, scan_order, media_files, 1,
                                      RunFrom(<<>>))} :
                /\ call' = Call("find_media_json_pairs", recursive, "")
                /\ returned' = [i \in 1..Len(run.results) |->
                                   <<run.results[i].media_path,
                                     run.results[i].json_path>>]
        /\ UNCHANGED <<matcher_vars, sub, root_exists, scan_order, run_vars,
                       cleaner_vars>>

\* main.py:102-106, 128-148: step 1 of run(), _extract_zips; run() returns
\* when archives were found and none could be extracted
ExtractZips ==
    /\ pc = "constructed"
    /\ options.extract_zips
    /\ \E results \in {extract_all(input_files, input_writable, Tree(fs, sub),
                                    options.delete_zips)} :
        /\ input_files' = results.files
        /\ extracted_files' = results.extracted_files
        /\ fs' = results.tree[Dir]
        /\ sub' = results.tree[Sub]
        /\ stats' = [stats EXCEPT !.zips_extracted = results.successful]
        /\ pc' = IF results.successful = 0 /\ results.total > 0
                 THEN "returned" ELSE "extracted"
    /\ UNCHANGED <<dir_readable, _json_cache, matched_count, unmatched_count,
                   result, root_exists, scan_order, call, returned,
                   input_writable, options, matches, processed_json_files,
                   outcomes, cleaner_vars>>

\* main.py:109-113, 150-173: step 2 of run(), _find_and_match_files with a
\* new matcher; run() returns when there is no media file
FindAndMatchFiles ==
    /\ \/ pc = "extracted"
       \/ pc = "constructed" /\ ~options.extract_zips
    /\ \E run \in {MatchLoop(Tree(fs, sub), scan_order,
                              MediaFilesOf(Tree(fs, sub), scan_order, TRUE),
                              1, RunFrom(<<>>))} :
        /\ matches' = run.results
        /\ _json_cache' = run.cache
        /\ matched_count' = MatchedIn(run.results)
        /\ unmatched_count' = Len(run.results) - MatchedIn(run.results)
        /\ stats' = [stats EXCEPT
                        !.media_files_found = Len(run.results),
                        !.media_files_matched = MatchedIn(run.results)]
        /\ pc' = IF run.results = <<>> THEN "returned" ELSE "matched"
    /\ UNCHANGED <<fs, dir_readable, result, batch_vars, input_files,
                   input_writable, options, processed_json_files,
                   extracted_files, outcomes, cleaner_vars>>

\* Variant of InjectMetadata: the sidecar is deleted in the round that
\* appends it, before the loop has reached the other media files.
InjectMetadata_DeletesAtOnce ==
    /\ pc = "matched"
    /\ Len(outcomes) < Len(MatchedItems(matches))
    /\ \E item \in {MatchedItems(matches)[Len(outcomes) + 1]} :
       \E outcome \in OutcomesFor(options.dry_run, MatchedItems(matches),
                                  outcomes, Len(outcomes) + 1) :
        /\ stats' = [stats EXCEPT
                        !.metadata_injected =
                            @ + (IF outcome = "injected" THEN 1 ELSE 0),
                        !.injection_failed =
                            @ + (IF outcome \in {"failed", "raised"}
                                 THEN 1 ELSE 0)]
        /\ processed_json_files' =
               IF outcome \in AppendedAfter
               THEN Append(processed_json_files, item.json_path)
               ELSE processed_json_files
        /\ outcomes' = Append(outcomes, outcome)
        /\ \E tree \in {IF outcome \in AppendedAfter /\ options.delete_json
                             /\ ~options.dry_run
                          THEN Unlinked(Tree(fs, sub), item.json_path)
                          ELSE Tree(fs, sub)} :
            /\ fs' = tree[Dir]
            /\ sub' = tree[Sub]
    /\ UNCHANGED <<dir_readable, _json_cache, matched_count, unmatched_count,
                   result, root_exists, scan_order, call, returned,
                   input_files, input_writable, options, pc, matches,
                   extracted_files, cleaner_vars>>

\* main.py:206-237: one round of the loop of _inject_metadata, step 3 of
\* run(); what the parser and the injector do with the matched file is the
\* environment's choice
InjectMetadata ==
    /\ pc = "matched"
    /\ Len(outcomes) < Len(MatchedItems(matches))
    /\ \E item \in {MatchedItems(matches)[Len(outcomes) + 1]} :
       \E outcome \in OutcomesFor(options.dry_run, MatchedItems(matches),
                                  outcomes, Len(outcomes) + 1) :
        /\ stats' = [stats EXCEPT
                        !.metadata_injected =
                            @ + (IF outcome = "injected" THEN 1 ELSE 0),
                        !.injection_failed =
                            @ + (IF outcome \in {"failed", "raised"}
                                 THEN 1 ELSE 0)]
        /\ processed_json_files' =
               IF outcome \in AppendedAfter
               THEN Append(processed_json_files, item.json_path)
               ELSE processed_json_files
        /\ outcomes' = Append(outcomes, outcome)
    /\ UNCHANGED <<matcher_vars, batch_vars, input_files, input_writable,
                   options, pc, matches, extracted_files, cleaner_vars>>

\* main.py:116, 201-203, 239-244: _inject_metadata returns when there is no
\* matched file or the loop has gone through all of them
InjectMetadataReturns ==
    /\ pc = "matched"
    /\ Len(outcomes) = Len(MatchedItems(matches))
    /\ pc' = "injected"
    /\ UNCHANGED <<matcher_vars, batch_vars, input_files, input_writable,
                   options, stats, matches, processed_json_files,
                   extracted_files, outcomes, cleaner_vars>>

\* main.py:119-120, 246-260: step 4 of run(), _cleanup_json_files, and the
\* return of run()
CleanupJsonFiles ==
    /\ pc = "injected"
    /\ options.delete_json
    /\ processed_json_files # <<>>
    /\ \E cleaned \in {delete_json_files(
                            Cleaned(Tree(fs, sub), <<>>, <<>>, <<>>),
                            processed_json_files, 1, options.dry_run, TRUE)} :
        /\ fs' = cleaned.tree[Dir]
        /\ sub' = cleaned.tree[Sub]
        /\ stats' = [stats EXCEPT
                        !.json_files_deleted = Len(cleaned.deleted_files)]
    /\ pc' = "returned"
    /\ UNCHANGED <<dir_readable, _json_cache, matched_count, unmatched_count,
                   result, root_exists, scan_order, call, returned,
                   input_files, input_writable, options, matches,
                   processed_json_files, extracted_files, outcomes,
                   cleaner_vars>>

\* main.py:119, 123-126: run() returns without step 4
ReturnStats ==
    /\ pc = "injected"
    /\ ~(options.delete_json /\ processed_json_files # <<>>)
    /\ pc' = "returned"
    /\ UNCHANGED <<matcher_vars, batch_vars, input_files, input_writable,
                   options, stats, matches, processed_json_files,
                   extracted_files, outcomes, cleaner_vars>>

\* the lists of paths a cleaner is called with
RECURSIVE PathLists(_)
PathLists(n) ==
    IF n = 0 THEN {<<>>}
    ELSE LET shorter == PathLists(n - 1)
         IN  shorter \cup {Append(l, f) : l \in shorter, f \in CleanerNames}

\* cleaner.py:96-125: delete_json_files(json_paths) on this cleaner, in a
\* directory whose files can be unlinked or not
DeleteJsonFiles(json_paths, writable) ==
    /\ Len(cleanup_results) < MaxCleanups
    /\ \E cleaned \in {delete_json_files(
                            Cleaned(Tree(fs, sub), cleaner.deleted_files,
                                    cleaner.failed_files,
                                    cleaner.skipped_files),
                            json_paths, 1, cleaner.dry_run, writable)} :
        /\ fs' = cleaned.tree[Dir]
        /\ sub' = cleaned.tree[Sub]
        /\ cleaner' = [cleaner EXCEPT
                          !.deleted_files = cleaned.deleted_files,
                          !.failed_files = cleaned.failed_files,
                          !.skipped_files = cleaned.skipped_files]
        /\ cleanup_results' =
               Append(cleanup_results, CleanupResult(json_paths, cleaned))
    /\ UNCHANGED <<dir_readable, _json_cache, matched_count, unmatched_count,
                   result, root_exists, scan_order, call, returned, run_vars>>

\* cleaner.py:127-149: find_and_delete_orphaned_json(directory, recursive):
\* the sidecars a new matcher reports are given to delete_json_files
FindAndDeleteOrphanedJson(recursive, writable) ==
    \E orphaned \in {find_orphaned_json_files(Tree(fs, sub), scan_order,
                                               recursive)} :
        DeleteJsonFiles(orphaned, writable)

\* cleaner.py:151-155: reset_counters
ResetCounters ==
    /\ cleaner' = [cleaner EXCEPT !.deleted_files = <<>>,
                                  !.failed_files = <<>>,
                                  !.skipped_files = <<>>]
    /\ UNCHANGED <<matcher_vars, batch_vars, run_vars, cleanup_results>>

NextStatic ==
    \/ \E m \in MediaInputs : FindJsonForMedia(m)
    \/ ClearCache

Next ==
    \/ \E m \in MediaInputs : FindJsonForMedia(m)
    \/ ClearCache
    \/ \E name \in ChangingNames : CreateFile(name)
    \/ \E name \in ChangingNames : DeleteFile(name)

NextTree ==
    \/ \E recursive \in BOOLEAN : FindAllMatches(recursive)
    \/ \E recursive \in BOOLEAN : FindOrphanedJsonFiles(recursive)
    \/ \E recursive \in BOOLEAN : FindMediaJsonPairs(recursive)

NextRun ==
    \/ ExtractZips
    \/ FindAndMatchFiles
    \/ InjectMetadata
    \/ InjectMetadataReturns
    \/ CleanupJsonFiles
    \/ ReturnStats

\* one matcher used on a tree for single requests and batch runs
NextMatcher ==
    \/ \E m \in MediaInputs \cap fs : FindJsonForMedia(m)
    \/ \E recursive \in BOOLEAN : FindAllMatches(recursive)
    \/ ClearCache

\* one cleaner used for several calls
NextCleaner ==
    \/ \E json_paths \in PathLists(MaxPaths), writable \in BOOLEAN :
          DeleteJsonFiles(json_paths, writable)
    \/ \E recursive, writable \in BOOLEAN :
          FindAndDeleteOrphanedJson(recursive, writable)
    \/ ResetCounters

SpecStatic == InitStatic /\ [][NextStatic]_vars

SpecTree == InitTree /\ [][NextTree]_vars

Spec == Init /\ [][Next]_vars

SpecRun == InitRun /\ [][NextRun]_vars

SpecMatcher == InitTree /\ [][NextMatcher]_vars

SpecCleaner == InitCleaner /\ [][NextCleaner]_vars

TypeOK ==
    /\ fs \subseteq FileNames \cup TreeNames
    /\ sub \subseteq SubNames
    /\ matched_count + unmatched_count <= MaxCalls + MaxBatchCalls
    /\ call.op \in {"", "find_all_matches", "find_orphaned_json_files",
                    "find_media_json_pairs"}
    /\ call.raised \in {"", "FileNotFoundError"}
    /\ DOMAIN _json_cache \subseteq {Dir, Sub}
    /\ result.match_type \in
         {"", "exact", "truncated", "edited", "numbered", "supplementary", "none"}
    /\ input_files \subseteq InputNames
    /\ pc \in {"", "constructed", "extracted", "matched", "injected", "returned"}
    /\ stats.zips_extracted <= Cardinality(InputNames)
    /\ stats.metadata_injected + stats.injection_failed
           <= stats.media_files_matched
    /\ stats.media_files_matched <= stats.media_files_found
    /\ stats.json_files_deleted <= Len(processed_json_files)
    /\ Len(processed_json_files) <= stats.media_files_matched

(***************************************************************************)
(* Notions the claims are stated with.  They are written from the claims'  *)
(* words over the names of the model, not from the strategies above.       *)
(***************************************************************************)
Called == result # NoResult

Media == result.media_path

ExactSidecar(m) == m \o ".json"
ExactSidecarOf == [m \in MediaInputs |-> ExactSidecar(m)]

\* the lists the call may have worked with in a directory that has not
\* changed: the cached one, or after clear_cache any listing of the directory
ListingsUsed == _get_json_files_in_directory

\* the sidecar a strategy finds, None when it finds none
StrategyPath(kind, files, json_files, m) ==
    CASE kind = "exact" ->
           IF ExactSidecarOf[m] \in files THEN ExactSidecarOf[m] ELSE None
      [] kind = "edited" -> _try_edited_match(files, json_files, m)
      [] kind = "numbered" -> _try_numbered_match(files, json_files, m)
      [] kind = "truncated" -> _try_truncated_match(json_files, m)
      [] kind = "supplementary" ->
           _try_supplementary_match(files, json_files, m)

\* kind and sidecar of the first strategy of `order' that finds a sidecar
FirstSuccess(order, files, json_files, m) ==
    LET hits == {i \in 1..Len(order) :
                    StrategyPath(order[i], files, json_files, m) # None}
    IN  IF hits = {} THEN <<"none", None>>
        ELSE <<order[Min(hits)],
               StrategyPath(order[Min(hits)], files, json_files, m)>>

\* sidecars whose truncated media-name is a case-insensitive prefix of m
IsPrefixCandidate(j, m) == StartsWith(Lower(m), Lower(TruncatedName(j)))
PrefixCandidatesOf ==
    [m \in MediaInputs |-> {j \in JsonNames : IsPrefixCandidate(j, m)}]
TruncatedNameOf == [j \in JsonNames |-> TruncatedName(j)]

(***************************************************************************)
(* C1.  A media file whose exact sidecar `<filename>.json' exists is       *)
(* matched to it with kind 'exact' and confidence 1.0, whatever other      *)
(* .json files the directory holds.                                        *)
(***************************************************************************)
C1_ExactWins ==
    (Called /\ ExactSidecarOf[Media] \in fs)
        => result = MatchResult(Media, ExactSidecarOf[Media], "exact", 100)

\* an exact match in a directory that also holds a candidate the truncated
\* scan accepts for the same media file
C1_Witness ==
    /\ Called
    /\ result.match_type = "exact"
    /\ \E j \in fs \ {result.json_path} : j \in AcceptedFor[Media]

(***************************************************************************)
(* C2.  As stated: the strategies are tried in the order Exact, Edited,    *)
(* Numbered, Truncated, Supplementary and the first that finds a sidecar   *)
(* gives the result's kind and sidecar.                                    *)
(***************************************************************************)
ClaimedOrder == <<"exact", "edited", "numbered", "truncated", "supplementary">>

C2_ClaimedOrder ==
    Called =>
        \E json_files \in ListingsUsed :
            <<result.match_type, result.json_path>>
                = FirstSuccess(ClaimedOrder, fs, json_files, Media)

(***************************************************************************)
(* C2, amended.  The strategies are tried in the order Exact, Truncated,   *)
(* Edited, Numbered, Supplementary and the first that finds a sidecar      *)
(* gives the result's kind and sidecar, also when a later strategy could   *)
(* succeed too.                                                            *)
(***************************************************************************)
CodeOrder == <<"exact", "truncated", "edited", "numbered", "supplementary">>

C2_CodeOrder ==
    Called =>
        \E json_files \in ListingsUsed :
            <<result.match_type, result.json_path>>
                = FirstSuccess(CodeOrder, fs, json_files, Media)

\* a truncated match for a media file the edited or the numbered strategy
\* finds a sidecar for as well
C2_Witness ==
    /\ Called
    /\ result.match_type = "truncated"
    /\ \A json_files \in ListingsUsed :
          \/ StrategyPath("edited", fs, json_files, Media) # None
          \/ StrategyPath("numbered", fs, json_files, Media) # None

(***************************************************************************)
(* C3.  In every returned MatchResult json_path is None exactly when the   *)
(* kind is 'none' and exactly when the confidence is 0.0; when no          *)
(* strategy finds a sidecar the result is (None, 'none', 0.0).             *)
(***************************************************************************)
C3_NoneIffNoSidecar ==
    Called =>
        /\ (result.json_path = None) <=> (result.match_type = "none")
        /\ (result.json_path = None) <=> (result.confidence = 0)
        /\ (\A json_files \in ListingsUsed : \A i \in 1..Len(CodeOrder) :
               StrategyPath(CodeOrder[i], fs, json_files, Media) = None)
             => result = MatchResult(Media, None, "none", 0)

\* a call for a derived media file that no strategy finds a sidecar for, in
\* a directory that holds sidecars
C3_Witness ==
    /\ Called
    /\ result.json_path = None
    /\ SupplementaryOriginalOf[Media] # None
    /\ JsonFilesOf(fs) # {}

(***************************************************************************)
(* C4.  Every result with a sidecar names a file that exists when the      *)
(* call returns, in any sequence of calls interleaved with file creation,  *)
(* file deletion and clear_cache.                                          *)
(***************************************************************************)
C4_SidecarExistsAtReturn ==
    [][(\E m \in MediaInputs : FindJsonForMedia(m))
          => (result'.json_path = None \/ result'.json_path \in fs')]_vars

(***************************************************************************)
(* C5.  As stated: the confidence is fixed by the kind, Exact 1.0,         *)
(* Edited 0.9, Numbered 0.85, Truncated 0.8, Supplementary 0.75, None 0.0. *)
(***************************************************************************)
C5_ClaimedConfidence ==
    Called =>
        result.confidence =
            CASE result.match_type = "exact" -> 100
              [] result.match_type = "edited" -> 90
              [] result.match_type = "numbered" -> 85
              [] result.match_type = "truncated" -> 80
              [] result.match_type = "supplementary" -> 75
              [] result.match_type = "none" -> 0

(***************************************************************************)
(* C5, amended.  The confidence is fixed by the kind: Exact 1.0,           *)
(* Truncated 0.95, Edited 0.9, Numbered 0.85, Supplementary 0.75,          *)
(* None 0.0.                                                               *)
(***************************************************************************)
C5_CodeConfidence ==
    Called =>
        result.confidence =
            CASE result.match_type = "exact" -> 100
              [] result.match_type = "truncated" -> 95
              [] result.match_type = "edited" -> 90
              [] result.match_type = "numbered" -> 85
              [] result.match_type = "supplementary" -> 75
              [] result.match_type = "none" -> 0

\* a numbered match, next to the truncated one the amendment is about
C5_Witness ==
    /\ Called
    /\ result.match_type = "numbered"
    /\ result.confidence = 85

(***************************************************************************)
(* C6.  When the truncated strategy matches a media file and the directory *)
(* holds two or more sidecars whose truncated media-names are prefixes of  *)
(* the media filename, the selected sidecar is one of them and none of     *)
(* them has a longer truncated media-name, whatever other .json files the  *)
(* directory holds.                                                        *)
(***************************************************************************)
C6_LongestPrefixSelected ==
    (/\ Called
     /\ result.match_type = "truncated"
     /\ Cardinality(fs \cap PrefixCandidatesOf[Media]) >= 2)
        => /\ result.json_path \in PrefixCandidatesOf[Media]
           /\ \A j \in fs \cap PrefixCandidatesOf[Media] :
                 Len(TruncatedNameOf[j])
                     <= Len(TruncatedNameOf[result.json_path])

(***************************************************************************)
(* C7.  As stated: a media file whose stem ends, case-insensitively, with  *)
(* an edited token, whose exact sidecar is absent and whose original       *)
(* sidecar exists is matched to the original sidecar with kind 'edited'    *)
(* and confidence 0.9.                                                     *)
(***************************************************************************)
ClaimedOriginalSidecar(m) ==
    LET tokens == {i \in 1..Len(EDITED_PATTERNS) :
                      EndsWith(Lower(Stem(m)), EDITED_PATTERNS[i])}
    IN  IF tokens = {} THEN None
        ELSE DropLast(Stem(m), Len(EDITED_PATTERNS[Min(tokens)]))
                 \o Suffix(m) \o ".json"
ClaimedOriginalSidecarOf == [m \in MediaInputs |-> ClaimedOriginalSidecar(m)]

EditedCase ==
    /\ Called
    /\ ClaimedOriginalSidecarOf[Media] # None
    /\ ExactSidecarOf[Media] \notin fs
    /\ ClaimedOriginalSidecarOf[Media] \in fs

C7_EditedMatch ==
    EditedCase
        => result = MatchResult(Media, ClaimedOriginalSidecarOf[Media],
                                "edited", 90)

\* the truncated strategy, which runs before the edited and the numbered
\* one, finds no sidecar for the media filename
NoTruncatedCandidate ==
    \A json_files \in ListingsUsed :
        _try_truncated_match(json_files, Media) = None

(***************************************************************************)
(* C7, amended.  Such a media file, when in addition the truncated         *)
(* strategy finds no sidecar for its filename, is matched to the original  *)
(* sidecar with kind 'edited' and confidence 0.9.                          *)
(***************************************************************************)
C7_EditedMatchAfterTruncated ==
    (EditedCase /\ NoTruncatedCandidate)
        => result = MatchResult(Media, ClaimedOriginalSidecarOf[Media],
                                "edited", 90)

\* an edited match for a file whose token is written in upper case, with
\* an accented letter
C7_Witness ==
    /\ EditedCase
    /\ NoTruncatedCandidate
    /\ Media = "photo-MODIFIÉ.jpg"
    /\ result.match_type = "edited"

(***************************************************************************)
(* C8.  As stated: a numbered duplicate base(N).ext whose directory holds  *)
(* base.ext.json and neither base(N).ext.json nor base.ext(N).json is      *)
(* matched to base.ext.json with kind 'numbered' and confidence 0.85.      *)
(***************************************************************************)
NumberedCase ==
    /\ Called
    /\ NumberedPlacementsOf[Media].matched
    /\ NumberedPlacementsOf[Media].base_json \in fs
    /\ NumberedPlacementsOf[Media].numbered_json \notin fs
    /\ NumberedPlacementsOf[Media].alt_json \notin fs

C8_NumberedFallback ==
    NumberedCase
        => result = MatchResult(Media, NumberedPlacementsOf[Media].base_json,
                                "numbered", 85)

(***************************************************************************)
(* C8, amended.  Such a numbered duplicate, when in addition the truncated *)
(* strategy finds no sidecar for its filename, is matched to base.ext.json *)
(* with kind 'numbered' and confidence 0.85.                               *)
(***************************************************************************)
C8_NumberedFallbackAfterTruncated ==
    (NumberedCase /\ NoTruncatedCandidate)
        => result = MatchResult(Media, NumberedPlacementsOf[Media].base_json,
                                "numbered", 85)

\* a numbered file matched to the sidecar of its original, in a directory
\* that holds other sidecars as well
C8_Witness ==
    /\ NumberedCase
    /\ NoTruncatedCandidate
    /\ result.json_path = "photo.jpg.json"
    /\ Cardinality(JsonFilesOf(fs)) >= 2

(***************************************************************************)
(* C9.  For every truncation of the supplemental marker to a prefix from   *)
(* `.s' up to `.supplemental-metadata', a sidecar named                    *)
(* <media filename><marker prefix>.json has the truncated media-name       *)
(* <media filename>, and when the media file has no exact sidecar the      *)
(* match is such a sidecar.                                                *)
(***************************************************************************)
SupplementalMarker == ".supplemental-metadata"

MarkerSidecarsOf ==
    [m \in MediaInputs |->
        {m \o SubSeq(SupplementalMarker, 1, k) \o ".json" :
            k \in 2..Len(SupplementalMarker)}]

C9_EveryMarkerPrefixStripped ==
    (/\ Called
     /\ dir_readable
     /\ ExactSidecarOf[Media] \notin fs)
        => \A j \in fs \cap MarkerSidecarsOf[Media] :
              /\ TruncatedNameOf[j] = Media
              /\ result.json_path \in MarkerSidecarsOf[Media]

(***************************************************************************)
(* C10.  As stated: every .json candidate whose truncated media-name is a  *)
(* case-insensitive prefix of the media filename is accepted, so a media   *)
(* file with such a candidate and no exact sidecar is not left unmatched   *)
(* (in a directory whose listing succeeds).                                *)
(***************************************************************************)
C10_EveryPrefixAccepted ==
    (/\ Called
     /\ dir_readable
     /\ ExactSidecarOf[Media] \notin fs)
        => \A j \in fs \cap PrefixCandidatesOf[Media] :
              /\ j \in AcceptedFor[Media]
              /\ result.json_path # None

(***************************************************************************)
(* C10, amended.  The truncated strategy has no precondition on the length *)
(* of the media filename: every .json candidate whose truncated media-name *)
(* has at least 5 characters and is a case-insensitive prefix of the media *)
(* filename is accepted, so a media file with such a candidate and no      *)
(* exact sidecar is matched by the truncated strategy (in a directory      *)
(* whose listing succeeds).                                                *)
(***************************************************************************)
C10_LongEnoughPrefixAccepted ==
    (/\ Called
     /\ dir_readable
     /\ ExactSidecarOf[Media] \notin fs)
        => \A j \in fs \cap PrefixCandidatesOf[Media] :
              Len(TruncatedNameOf[j]) >= 5
                  => /\ j \in AcceptedFor[Media]
                     /\ result.match_type = "truncated"
                     /\ result.json_path # None

\* a nine-character media filename matched by the truncated strategy to a
\* seven-character truncated media-name
C10_Witness ==
    /\ Called
    /\ Media = "photo.jpg"
    /\ result = MatchResult("photo.jpg", "photo.j.json", "truncated", 95)

(***************************************************************************)
(* C11.  A media file whose stem ends, case-insensitively, with -EFFECTS,  *)
(* -ANIMATION, -COLLAGE, -PANO or -MOTION and for which no earlier         *)
(* strategy succeeds has the token stripped; the exact check and then the  *)
(* truncated scan are applied to <stripped stem><ext>, and a sidecar found *)
(* this way is returned with kind 'supplementary' and confidence 0.75.     *)
(***************************************************************************)
DerivedTokens == {"-effects", "-animation", "-collage", "-pano", "-motion"}

\* <stripped stem><ext>, None when the stem ends with no token
ClaimedDerivedOriginal(m) ==
    LET tokens == {t \in DerivedTokens : EndsWith(Lower(Stem(m)), t)}
    IN  IF tokens = {} THEN None
        ELSE DropLast(Stem(m), Len(CHOOSE t \in tokens : TRUE)) \o Suffix(m)
ClaimedDerivedOriginalOf == [m \in MediaInputs |-> ClaimedDerivedOriginal(m)]

\* derived names in several spellings, each of the original photo.jpg
DerivedSpellings ==
    {"photo-EFFECTS.jpg", "photo-effects.jpg", "photo-Animation.jpg",
     "photo-COLLAGE.jpg", "photo-pano.jpg", "photo-Motion.jpg"}

\* the exact check, then the truncated scan, applied to the original
RetryOnOriginal(files, json_files, original) ==
    IF ExactSidecar(original) \in files THEN ExactSidecar(original)
    ELSE _try_truncated_match(json_files, original)

EarlierStrategiesFail(json_files) ==
    \A kind \in {"exact", "truncated", "edited", "numbered"} :
        StrategyPath(kind, fs, json_files, Media) = None

DerivedOriginalsOf == [n \in DerivedSpellings |-> SupplementaryOriginal(n)]

C11_SupplementaryRetry ==
    /\ \A n \in DerivedSpellings : DerivedOriginalsOf[n] = "photo.jpg"
    /\ (Called /\ ClaimedDerivedOriginalOf[Media] # None)
         => \E json_files \in ListingsUsed :
              LET found == RetryOnOriginal(fs, json_files,
                                           ClaimedDerivedOriginalOf[Media])
              IN  (EarlierStrategiesFail(json_files) /\ found # None)
                    => result = MatchResult(Media, found, "supplementary", 75)

\* a derived file with a mixed-case token matched through the truncated
\* scan applied to the name of its original
C11_Witness ==
    /\ Called
    /\ Media = "photo-Motion.jpg"
    /\ result.match_type = "supplementary"
    /\ result.json_path # "photo.jpg.json"

(***************************************************************************)
(* C12.  The sidecar list used for a directory is the one taken by the     *)
(* first request for it since the last clear_cache (or since               *)
(* construction): a cached list is never replaced by a later request, also *)
(* when the directory has changed meanwhile; a request made while nothing  *)
(* is cached lists the filesystem as it is then; a result that needed the  *)
(* list is computed from the cached list.                                  *)
(***************************************************************************)
FreshListings == IF dir_readable THEN Orders(JsonFilesOf(fs)) ELSE {<<>>}

C12_ListedOncePerClear ==
    [][ /\ (Dir \in DOMAIN _json_cache /\ Dir \in DOMAIN _json_cache')
            => _json_cache' = _json_cache
        /\ (Dir \notin DOMAIN _json_cache /\ Dir \in DOMAIN _json_cache')
            => _json_cache'[Dir] \in FreshListings
        /\ (Dir \in DOMAIN _json_cache /\ Dir \notin DOMAIN _json_cache')
            => UNCHANGED <<fs, result, matched_count, unmatched_count>>
        /\ ((\E m \in MediaInputs : FindJsonForMedia(m))
              /\ result'.match_type # "exact")
            => /\ Dir \in DOMAIN _json_cache'
               /\ result' = find_json_for_media(fs, _json_cache'[Dir],
                                                result'.media_path)
      ]_vars

\* two requests were answered, the list is still cached, and the answer
\* names a sidecar of the cached list that the directory no longer holds
C12_Witness ==
    /\ matched_count + unmatched_count = MaxCalls
    /\ Dir \in DOMAIN _json_cache
    /\ {_json_cache[Dir][i] : i \in DOMAIN _json_cache[Dir]} # JsonFilesOf(fs)
    /\ result.match_type \notin {"", "exact"}
    /\ result.json_path \notin fs \cup {None}

(***************************************************************************)
(* C13.  A failing directory listing is not propagated: the request is     *)
(* answered as if the directory held no sidecar candidates, by the         *)
(* strategies that do not need the list, a MatchResult for the media file  *)
(* is returned and counted, and further requests can be made.              *)
(***************************************************************************)
RemainingOrder == <<"exact", "edited", "numbered", "supplementary">>

ListingFails == ~dir_readable /\ Dir \notin DOMAIN _json_cache

C13_ListingFailureTolerated ==
    [][ /\ (ListingFails /\ matched_count + unmatched_count < MaxCalls)
            => \A m \in MediaInputs : ENABLED FindJsonForMedia(m)
        /\ (ListingFails /\ (\E m \in MediaInputs : FindJsonForMedia(m)))
            => /\ result'.media_path \in MediaInputs
               /\ <<result'.match_type, result'.json_path>>
                    = FirstSuccess(RemainingOrder, fs, <<>>,
                                   result'.media_path)
               /\ result'.match_type # "exact"
                    => _json_cache' = (Dir :> <<>>)
               /\ matched_count' + unmatched_count'
                    = matched_count + unmatched_count + 1
      ]_vars

\* the directory holds a truncated-name sidecar but cannot be listed; a
\* first request went unmatched and a second one was answered by a
\* strategy that probes the filesystem directly
C13_Witness ==
    /\ ~dir_readable
    /\ _json_cache = (Dir :> <<>>)
    /\ "photo.j.json" \in fs
    /\ unmatched_count = 1
    /\ matched_count = 1
    /\ result.match_type \in {"edited", "numbered", "supplementary"}

(***************************************************************************)
(* C18.  A match request changes no state other than the Directory Index   *)
(* cache: it leaves the filesystem alone and keeps no counters on the      *)
(* matcher.                                                                *)
(***************************************************************************)
C18_OnlyCacheChanges ==
    [][ (\E m \in MediaInputs : FindJsonForMedia(m))
          => UNCHANGED <<fs, dir_readable, matched_count, unmatched_count>>
      ]_vars

(***************************************************************************)
(* Notions of the claims about batch runs.                                 *)
(***************************************************************************)
Directories == {Dir, Sub}

\* the files of a directory of the tree
FilesIn(directory) == IF directory = Dir THEN fs ELSE sub

Range(seq) == {seq[i] : i \in DOMAIN seq}

\* the last batch call was this operation and it returned
Returned(op) == call.op = op /\ call.raised = ""

\* the directories a call with this argument covers
Covered(recursive) == IF recursive THEN Directories ELSE {Dir}

\* the sidecar name minus `.json' and minus any full or truncated
\* supplemental marker (the longest one it ends with)
DerivedBasename(json_name) ==
    LET base == DropLast(json_name, 5)
        cuts == {k \in 2..Len(SupplementalMarker) :
                    EndsWith(Lower(base), SubSeq(SupplementalMarker, 1, k))}
    IN  IF cuts = {} THEN base
        ELSE DropLast(base, CHOOSE k \in cuts : \A l \in cuts : l <= k)

TreeJsonNames == {n \in TreeNames : Lower(Suffix(n)) = ".json"}

DerivedBasenameOf == [n \in TreeJsonNames |-> DerivedBasename(n)]

\* the media files whose name starts, case-insensitively, with the derived
\* basename of a sidecar
MediaOfSidecar ==
    [n \in TreeJsonNames |->
        {m \in TreeNames :
            /\ IsMediaOf[m]
            /\ StartsWith(Lower(m), Lower(DerivedBasenameOf[n]))}]

(***************************************************************************)
(* C14.  find_orphaned_json_files never reports a sidecar for which the    *)
(* same directory holds a media file whose name starts, case-              *)
(* insensitively, with the sidecar's derived basename.                     *)
(***************************************************************************)
C14_NoOrphanWithMedia ==
    Returned("find_orphaned_json_files")
        => \A directory \in Directories :
             \A n \in FilesIn(directory) \cap TreeJsonNames :
                PathIn(directory, n) \in Range(returned)
                    => MediaOfSidecar[n] \cap FilesIn(directory) = {}

(***************************************************************************)
(* C15.  Every .json file under the root (at any depth when recursive, a   *)
(* direct child otherwise) that is recognized as a media sidecar and for   *)
(* which no media file of its own directory has a name starting with its   *)
(* derived basename is in the result of find_orphaned_json_files.          *)
(***************************************************************************)
C15_EveryOrphanReported ==
    Returned("find_orphaned_json_files")
        => \A directory \in Covered(call.recursive) :
             \A n \in FilesIn(directory) \cap TreeJsonNames :
                (/\ IsJsonMetadataOf[n]
                 /\ MediaOfSidecar[n] \cap FilesIn(directory) = {})
                    => PathIn(directory, n) \in Range(returned)

(***************************************************************************)
(* C16.  find_all_matches(root, recursive) returns exactly one MatchResult *)
(* per media file found (at any depth when recursive, direct children of   *)
(* the root otherwise, non-media files excluded), each with media_path     *)
(* equal to that file, in the order in which the traversal produced the    *)
(* files.                                                                  *)
(***************************************************************************)
\* the media files a call with this argument finds, as <<directory, name>>
MediaFound(recursive) ==
    {e \in Directories \X TreeNames :
        /\ e[1] \in Covered(recursive)
        /\ e[2] \in FilesIn(e[1])
        /\ IsMediaOf[e[2]]}

\* the position of a name in the enumeration order
IndexIn(order, n) == CHOOSE i \in DOMAIN order : order[i] = n

\* the traversal produces the entries of the root in enumeration order,
\* then those of the subdirectory
ProducedBefore(e1, e2) ==
    \/ e1[1] = Dir /\ e2[1] = Sub
    \/ e1[1] = e2[1] /\ IndexIn(scan_order, e1[2]) < IndexIn(scan_order, e2[2])

C16_OneResultPerMediaFile ==
    Returned("find_all_matches")
        => /\ {returned[i].media_path : i \in DOMAIN returned}
                = {PathIn(e[1], e[2]) : e \in MediaFound(call.recursive)}
           /\ Len(returned) = Cardinality(MediaFound(call.recursive))
           /\ \A i, j \in DOMAIN returned :
                i < j => \E e1, e2 \in MediaFound(call.recursive) :
                            /\ returned[i].media_path = PathIn(e1[1], e1[2])
                            /\ returned[j].media_path = PathIn(e2[1], e2[2])
                            /\ ProducedBefore(e1, e2)

\* a recursive run over a root with two media files and a file that is not
\* a media file, and a subdirectory with a media file
C16_Witness ==
    /\ Returned("find_all_matches")
    /\ call.recursive
    /\ "notes.txt" \in fs
    /\ Len(returned) = 3
    /\ returned[3].media_path = "sub/photo.jpg"

(***************************************************************************)
(* C17.  Two runs of find_all_matches over an unchanged tree, each with a  *)
(* new matcher, yield the same ordered sequence: a run of                  *)
(* find_media_json_pairs (which makes its own matcher) returns what the    *)
(* run before it returned, and a run of find_all_matches on an unused      *)
(* matcher pairs the files as the find_media_json_pairs run before or      *)
(* after it does.                                                          *)
(***************************************************************************)
PairsOf(results) ==
    [i \in DOMAIN results |-> <<results[i].media_path, results[i].json_path>>]

UnusedMatcher ==
    matched_count + unmatched_count = 0 /\ _json_cache = <<>>

\* the last call was find_all_matches, on a matcher unused until then
ReturnedByNewMatcher ==
    /\ Returned("find_all_matches")
    /\ matched_count + unmatched_count = Len(returned)

SameArgumentNext(op) ==
    /\ call'.op = op
    /\ call'.raised = ""
    /\ call'.recursive = call.recursive

C19_MissingRootRaises ==
    call.op = "find_all_matches"
        => (call.raised # "" <=> ~root_exists)

(***************************************************************************)
(* C20.  With extract_zips and delete_zips enabled, an archive that was    *)
(* extracted is never deleted at extraction time: it is gone from          *)
(* input_path only once run() has matched every media file to a sidecar    *)
(* and every injection has succeeded; when an injection failed or a media  *)
(* file has no sidecar, the archive still exists when run() returns.       *)
(***************************************************************************)
ExtractedZips == {extracted_files[i] : i \in DOMAIN extracted_files}

EveryMediaFileProcessed ==
    /\ pc \in {"injected", "returned"}
    /\ stats.media_files_matched = stats.media_files_found
    /\ stats.injection_failed = 0

C20_ZipKeptUntilProcessed ==
    (options.extract_zips /\ options.delete_zips) =>
        \A z \in ExtractedZips :
            z \notin input_files => EveryMediaFileProcessed

(***************************************************************************)
(* C21.  In a dry run, no step of run() deletes an archive, also with      *)
(* extract_zips and delete_zips set: every archive of input_path before    *)
(* a step is still there after it.                                         *)
(***************************************************************************)
ZipsIn(files) == {find_zip_files(files)[i] : i \in DOMAIN find_zip_files(files)}

C21_DryRunKeepsZips ==
    [][options.dry_run => ZipsIn(input_files) \subseteq input_files']_vars

(***************************************************************************)
(* C22.  A sidecar is handed to the cleanup step, and deleted, only after  *)
(* a media file matched to it was processed successfully: the sidecar of   *)
(* a media file whose injection failed is not among the processed files    *)
(* and is still in place when run() returns.                               *)
(***************************************************************************)
InjectionDone == pc \in {"injected", "returned"}

\* the sidecar of the i-th matched item
SidecarOfItem(i) == MatchedItems(matches)[i].json_path

\* the matched items whose processing succeeded
SucceededItems ==
    {i \in DOMAIN outcomes : outcomes[i] \in {"injected", "nothing_useful"}}

\* main.py:119-120: the sidecars run() calls _cleanup_json_files with
HandedToCleanup(json_path) ==
    options.delete_json /\ json_path \in Range(processed_json_files)

C22_FailedSidecarLeftInPlace ==
    InjectionDone =>
        \A i \in DOMAIN outcomes :
            (\/ HandedToCleanup(SidecarOfItem(i))
             \/ ~ExistsIn(Tree(fs, sub), SidecarOfItem(i)))
                => \E k \in SucceededItems : SidecarOfItem(k) = SidecarOfItem(i)

(***************************************************************************)
(* C23.  find_orphaned_json_files never reports a sidecar that             *)
(* find_json_for_media returns as the match, of any kind, of a media file  *)
(* that exists in the same directory.                                      *)
(***************************************************************************)
\* the sidecar find_json_for_media returns for a media file of a directory
\* of the tree, the directory being listed in enumeration order
MatchOf(directory, media_name) ==
    find_json_for_media(FilesIn(directory),
                        Scan(scan_order, JsonFilesOf(FilesIn(directory))),
                        media_name).json_path

C23_NoOrphanIsAMatch ==
    Returned("find_orphaned_json_files")
        => \A directory \in Directories :
             \A m \in {f \in FilesIn(directory) : IsMediaOf[f]} :
                \A j \in {MatchOf(directory, m)} :
                    j # None => PathIn(directory, j) \notin Range(returned)

(***************************************************************************)
(* C24.  During run(), a sidecar is deleted only when the loop of          *)
(* _inject_metadata has gone through every media file matched to it: as    *)
(* long as a media file matched to a sidecar is still to be processed,     *)
(* the sidecar exists, also when several media files share it.             *)
(***************************************************************************)
C24_SidecarKeptUntilAllProcessed ==
    \A i \in DOMAIN MatchedItems(matches) :
        ~ExistsIn(Tree(fs, sub), SidecarOfItem(i))
            => \A k \in DOMAIN MatchedItems(matches) :
                  SidecarOfItem(k) = SidecarOfItem(i) => k \in DOMAIN outcomes

\* a sidecar shared by two media files was deleted after both were processed
C24_Witness ==
    /\ pc = "returned"
    /\ \E i, k \in DOMAIN outcomes :
        /\ i # k
        /\ SidecarOfItem(i) = SidecarOfItem(k)
        /\ MatchedItems(matches)[i].media_path
               # MatchedItems(matches)[k].media_path
        /\ ~ExistsIn(Tree(fs, sub), SidecarOfItem(i))

(***************************************************************************)
(* C25.  Whenever the truncated strategy returns a sidecar for a media     *)
(* file, the sidecar's truncated media-name is, case-insensitively and     *)
(* character for character, trailing whitespace included, a prefix of the  *)
(* media filename.                                                         *)
(***************************************************************************)
C25_TruncatedNameIsPrefix ==
    (Called /\ result.match_type = "truncated")
        => IsPrefixCandidate(result.json_path, Media)

(***************************************************************************)
(* C26.  Every result of kind 'numbered' is for a media file named         *)
(* base(N).ext and points at the first that exists of base(N).ext.json,    *)
(* base.ext(N).json and base.ext.json, in this order, and at no other      *)
(* file.                                                                   *)
(***************************************************************************)
\* the three placements of the claim, in its order
ClaimedPlacements(m) ==
    <<NumberedPlacementsOf[m].numbered_json, NumberedPlacementsOf[m].alt_json,
      NumberedPlacementsOf[m].base_json>>

\* whether a sidecar is the first existing placement
IsFirstExistingPlacement(json_name, m) ==
    \E i \in 1..3 :
        /\ ClaimedPlacements(m)[i] = json_name
        /\ json_name \in fs
        /\ \A k \in 1..(i - 1) : ClaimedPlacements(m)[k] \notin fs

C26_NumberedPlacementOrder ==
    (Called /\ result.match_type = "numbered")
        => /\ NumberedPlacementsOf[Media].matched
           /\ IsFirstExistingPlacement(result.json_path, Media)

\* a numbered result in a directory that holds base.ext(N).json and
\* base.ext.json
C26_Witness ==
    /\ Called
    /\ result.match_type = "numbered"
    /\ {"photo.jpg(1).json", "photo.jpg.json"} \subseteq fs
    /\ result.json_path = "photo.jpg(1).json"

(***************************************************************************)
(* C27.  When several candidates the truncated scan accepts for a media    *)
(* file have truncated media-names of the same, longest length, the        *)
(* result of kind 'truncated' is the one of them that comes earliest in    *)
(* the directory listing, whatever the names are.                          *)
(***************************************************************************)
\* the places in a listing of the accepted candidates of the longest length
LongestAccepted(json_files, m) ==
    {i \in DOMAIN json_files :
        /\ json_files[i] \in AcceptedFor[m]
        /\ \A k \in DOMAIN json_files :
              json_files[k] \in AcceptedFor[m]
                  => TruncatedLenOf[json_files[k]] <= TruncatedLenOf[json_files[i]]}

\* the truncated strategy answered the last call from the cached listing
TruncatedFromCache ==
    /\ Called
    /\ result.match_type = "truncated"
    /\ Dir \in DOMAIN _json_cache

C27_TieBrokenByListingOrder ==
    (/\ TruncatedFromCache
     /\ Cardinality(LongestAccepted(_json_cache[Dir], Media)) >= 2)
        => \E i \in LongestAccepted(_json_cache[Dir], Media) :
              /\ result.json_path = _json_cache[Dir][i]
              /\ \A k \in LongestAccepted(_json_cache[Dir], Media) : i <= k

\* a tie between two sidecars with the truncated media-name photo.jpg,
\* resolved in favour of the one listed first, which is not the first of
\* the listing
C27_Witness ==
    /\ TruncatedFromCache
    /\ Cardinality(LongestAccepted(_json_cache[Dir], Media)) >= 2
    /\ result.json_path = "photo.jpg.supplemental-metadata.json"
    /\ \E i, k \in DOMAIN _json_cache[Dir] :
          /\ 1 < i
          /\ i < k
          /\ _json_cache[Dir][i] = "photo.jpg.supplemental-metadata.json"
          /\ _json_cache[Dir][k] = "photo.jpg.s.json"

(***************************************************************************)
(* C28.  As stated: a request resolved by the exact, the edited or the     *)
(* numbered strategy does not list the directory and leaves the cache      *)
(* unchanged.                                                              *)
(***************************************************************************)
C28_DirectChecksLeaveCache ==
    [][ ((\E m \in MediaInputs : FindJsonForMedia(m))
           /\ result'.match_type \in {"exact", "edited", "numbered"})
          => _json_cache' = _json_cache
      ]_vars

(***************************************************************************)
(* C28, amended.  A request resolved by the exact strategy leaves the      *)
(* cache unchanged.  Every other request, whatever resolves it, has run    *)
(* the truncated strategy: afterwards the directory has a cached list, an  *)
(* already cached list is kept, and a new one is the listing of the        *)
(* directory at that time, empty when the listing fails.                   *)
(***************************************************************************)
C28_OnlyExactLeavesCache ==
    [][ (\E m \in MediaInputs : FindJsonForMedia(m))
          => IF result'.match_type = "exact"
             THEN _json_cache' = _json_cache
             ELSE /\ Dir \in DOMAIN _json_cache'
                  /\ IF Dir \in DOMAIN _json_cache
                     THEN _json_cache' = _json_cache
                     ELSE _json_cache'[Dir] \in FreshListings
      ]_vars

\* the first request on the matcher was resolved by the edited or the
\* numbered strategy and left a cached list behind
C28_Witness ==
    /\ matched_count + unmatched_count = 1
    /\ result.match_type \in {"edited", "numbered"}
    /\ Dir \in DOMAIN _json_cache
    /\ _json_cache[Dir] # <<>>

(***************************************************************************)
(* C29.  On one matcher the counters start at zero; every completed        *)
(* find_json_for_media call, made directly or by find_all_matches, adds    *)
(* one to matched_count when its result has a sidecar and one to           *)
(* unmatched_count otherwise; clear_cache leaves both counters unchanged.  *)
(* So matched_count + unmatched_count is the number of completed calls     *)
(* and matched_count the number of results with a sidecar.                 *)
(***************************************************************************)
\* the calls a step completes and how many of their results have a sidecar
CountedBy(calls, with_sidecar) ==
    /\ matched_count' = matched_count + with_sidecar
    /\ unmatched_count' = unmatched_count + calls - with_sidecar

C29_CountersCountCalls ==
    /\ (matched_count = 0 /\ unmatched_count = 0)
    /\ [][ /\ (\E m \in MediaInputs : FindJsonForMedia(m))
               => CountedBy(1, IF result'.json_path # None THEN 1 ELSE 0)
           /\ ((\E recursive \in BOOLEAN : FindAllMatches(recursive))
                 /\ call'.raised = "")
               => CountedBy(Len(returned'), MatchedIn(returned'))
           /\ ((\E recursive \in BOOLEAN : FindAllMatches(recursive))
                 /\ call'.raised # "")
               => CountedBy(0, 0)
           /\ ClearCache => CountedBy(0, 0)
         ]_vars

\* a single request and a batch run were counted on the same matcher, with
\* matched and unmatched files, and the cache was cleared
C29_Witness ==
    /\ Called
    /\ Returned("find_all_matches")
    /\ Len(returned) >= 2
    /\ matched_count + unmatched_count > Len(returned)
    /\ matched_count >= 1
    /\ unmatched_count >= 1
    /\ _json_cache = <<>>
    /\ \E i \in DOMAIN returned : returned[i].match_type \notin {"exact", "none"}

(***************************************************************************)
(* C30.  In every CleanupResult delete_json_files has returned, the files  *)
(* counted as deleted, failed and skipped are together at most the files   *)
(* the call was given, also when one cleaner serves several calls.         *)
(***************************************************************************)
\* the files a CleanupResult counts as deleted, failed or skipped
CountedIn(cleanup) ==
    cleanup.deleted_count + cleanup.failed_count + cleanup.skipped_count

\* C30: every CleanupResult returned so far counts at most total_files files
C30_CountsWithinTotal ==
    \A i \in DOMAIN cleanup_results :
        CountedIn(cleanup_results[i]) <= cleanup_results[i].total_files

====
